---- MODULE Spec2Model ----
(***************************************************************************)
(* Model of the `coloring` crate (src/src/lib.rs): a Formatting value with *)
(* a foreground colour, a background colour and an optional list of        *)
(* styles, and apply_to, which wraps a text in the ANSI SGR sequence the   *)
(* value describes.                                                         *)
(*                                                                         *)
(* A Rust String is modelled as a sequence of byte values (every character *)
(* the crate itself produces is ASCII); Option<T> as a record              *)
(* [some, val], so that Some("") and None stay distinct.                   *)
(***************************************************************************)
EXTENDS Integers, Sequences, FiniteSets, TLC

\* ------------------------------------------------------------------------
\* Bounds of the model
\* ------------------------------------------------------------------------

\* longest style list passed to styles() in the state machine
MaxStyleLen == 2

\* longest style list handed to translate_styles in SpecStyles
MaxListLen == 3

\* ------------------------------------------------------------------------
\* Characters
\* ------------------------------------------------------------------------

\* '\x1B'
ESC == 27

\* '['
LBRACKET == 91

\* ';'
SEMI == 59

\* 'm'
LOWER_M == 109

\* '0'; the decimal digit d is the byte ZERO + d
ZERO == 48

\* 't', an ordinary printable character used in the sample texts
LOWER_T == 116

\* ------------------------------------------------------------------------
\* Option<T>
\* ------------------------------------------------------------------------

None == [some |-> FALSE, val |-> <<>>]

Some(v) == [some |-> TRUE, val |-> v]

\* Option::unwrap_or
unwrap_or(o, d) == IF o.some THEN o.val ELSE d

\* ------------------------------------------------------------------------
\* enum Color
\* ------------------------------------------------------------------------

BaseColors == {"Black", "Red", "Green", "Yellow", "Blue", "Magenta", "Cyan", "White"}

BrightColors == {"BrightBlack", "BrightRed", "BrightGreen", "BrightYellow",
                 "BrightBlue", "BrightMagenta", "BrightCyan", "BrightWhite"}

Named(t) == <<t>>

Default == Named("Default")

Colors256(v) == <<"Colors256", v>>

RGB(r, g, b) == <<"RGB", r, g, b>>

\* the values of a u8
U8 == 0..255

\* u8 values at the boundaries of the one-, two- and three-digit ranges
U8Sample == {0, 9, 10, 99, 100, 255}

\* every Color, with the RGB channels drawn from U8Sample
Color == {Default} \cup {Named(t) : t \in BaseColors \cup BrightColors}
            \cup {Colors256(v) : v \in U8}
            \cup {RGB(r, g, b) : r \in U8Sample, g \in U8Sample, b \in U8Sample}

\* the colours the state machine passes to foreground() and background()
ColorSample == {Default, Named("Blue"), Colors256(208), RGB(255, 0, 42)}

\* ------------------------------------------------------------------------
\* enum Styles and enum TensDigit
\* ------------------------------------------------------------------------

Styles == {"Reset", "Bold", "Faint", "Italic", "Underline", "Blink",
           "Invert", "Invisible", "Strikethrough"}

\* variant of StyleCode: discriminants numbered consecutively, without the gap at 6
StyleCode_NoGap(x) ==
    CASE x = "Reset" -> 0 [] x = "Bold" -> 1 [] x = "Faint" -> 2
      [] x = "Italic" -> 3 [] x = "Underline" -> 4 [] x = "Blink" -> 5
      [] x = "Invert" -> 6 [] x = "Invisible" -> 7 [] x = "Strikethrough" -> 8

\* the discriminant of a Styles value (x as u8)
StyleCode(x) ==
    CASE x = "Reset" -> 0 [] x = "Bold" -> 1 [] x = "Faint" -> 2
      [] x = "Italic" -> 3 [] x = "Underline" -> 4 [] x = "Blink" -> 5
      [] x = "Invert" -> 7 [] x = "Invisible" -> 8 [] x = "Strikethrough" -> 9

\* the styles the state machine passes to styles()
StyleSample == {"Reset", "Bold", "Invert"}

\* TensDigit::FG as u8
FG == 3

\* TensDigit::BG as u8
BG == 4

\* ------------------------------------------------------------------------
\* Sequences
\* ------------------------------------------------------------------------

SeqsUpTo(S, n) == UNION {[1..k -> S] : k \in 0..n}

\* u8::to_string and the "{}" of format! on a u8: decimal, no leading zeros
RECURSIVE to_string(_)
to_string(n) ==
    IF n < 10 THEN <<ZERO + n>>
    ELSE to_string(n \div 10) \o <<ZERO + (n % 10)>>

\* [String]::join(sep)
RECURSIVE join(_, _)
join(strs, sep) ==
    IF Len(strs) = 0 THEN <<>>
    ELSE IF Len(strs) = 1 THEN strs[1]
    ELSE strs[1] \o sep \o join(Tail(strs), sep)

\* ------------------------------------------------------------------------
\* impl Formatting: the pure part
\* ------------------------------------------------------------------------

\* variant of new: styles starts as Some(vec![]) instead of None
new_EmptyStyles == [fg |-> Default, bg |-> Default, styles |-> Some(<<>>)]

\* Formatting::new(): Default::default() of the derived Default
new == [fg |-> Default, bg |-> Default, styles |-> None]

\* variant of foreground: the other colour is reset to its default
foreground_ResetsBg(self, c) == [self EXCEPT !.fg = c, !.bg = Default]

\* Formatting::foreground, as the value of *self after the call
foreground(self, c) == [self EXCEPT !.fg = c]

\* Formatting::background, as the value of *self after the call
background(self, c) == [self EXCEPT !.bg = c]

\* variant of styles: the list is appended to the one already set
styles_Extend(self, list) ==
    [self EXCEPT !.styles = Some(unwrap_or(self.styles, <<>>) \o list)]

\* Formatting::styles, as the value of *self after the call
styles(self, list) == [self EXCEPT !.styles = Some(list)]

\* the offset a named colour adds to 10 * td
ColorOffset(t) ==
    CASE t = "Black" -> 0 [] t = "Red" -> 1 [] t = "Green" -> 2 [] t = "Yellow" -> 3
      [] t = "Blue" -> 4 [] t = "Magenta" -> 5 [] t = "Cyan" -> 6 [] t = "White" -> 7
      [] t = "BrightBlack" -> 60 [] t = "BrightRed" -> 61 [] t = "BrightGreen" -> 62
      [] t = "BrightYellow" -> 63 [] t = "BrightBlue" -> 64 [] t = "BrightMagenta" -> 65
      [] t = "BrightCyan" -> 66 [] t = "BrightWhite" -> 67

\* variant of translate_colors: the palette and RGB prefixes are the
\* foreground literals "38;5;" and "38;2;" whatever the tens digit
translate_colors_Literal38(color, td) ==
    CASE color[1] = "Default" -> None
      [] color[1] = "Colors256" ->
            Some(<<ZERO + 3, ZERO + 8, SEMI, ZERO + 5, SEMI>> \o to_string(color[2]))
      [] color[1] = "RGB" ->
            Some(<<ZERO + 3, ZERO + 8, SEMI, ZERO + 2, SEMI>> \o to_string(color[2])
                    \o <<SEMI>> \o to_string(color[3]) \o <<SEMI>> \o to_string(color[4]))
      [] OTHER -> Some(to_string((10 * td) + ColorOffset(color[1])))

\* Formatting::translate_colors(color, tens_digit), td = tens_digit as u8
translate_colors(color, td) ==
    CASE color[1] = "Default" -> None
      [] color[1] = "Colors256" ->
            Some(to_string(td) \o <<ZERO + 8, SEMI, ZERO + 5, SEMI>> \o to_string(color[2]))
      [] color[1] = "RGB" ->
            Some(to_string(td) \o <<ZERO + 8, SEMI, ZERO + 2, SEMI>> \o to_string(color[2])
                    \o <<SEMI>> \o to_string(color[3]) \o <<SEMI>> \o to_string(color[4]))
      [] OTHER -> Some(to_string((10 * td) + ColorOffset(color[1])))

\* Formatting::translate_foreground
translate_foreground(self) == translate_colors(self.fg, FG)

\* Formatting::translate_background
translate_background(self) == translate_colors(self.bg, BG)

\* variant of translate_styles: an empty list is reported as None
translate_styles_EmptyIsNone(self) ==
    IF ~self.styles.some \/ self.styles.val = <<>> THEN None
    ELSE LET list == self.styles.val
             strs == [i \in 1..Len(list) |-> to_string(StyleCode(list[i]))]
         IN  Some(join(strs, <<SEMI>>))

\* Formatting::translate_styles
translate_styles(self) ==
    IF ~self.styles.some THEN None
    ELSE LET list == self.styles.val
             strs == [i \in 1..Len(list) |-> to_string(StyleCode(list[i]))]
         IN  Some(join(strs, <<SEMI>>))

\* variant of translate: the separator after the foreground is pushed only
\* when a background follows
translate_FgSepOnlyBeforeBg(self) ==
    LET f == translate_foreground(self)
        b == translate_background(self)
        s == translate_styles(self)
        t0 == <<>>
        t1 == IF f.some
              THEN (t0 \o f.val) \o (IF b.some THEN <<SEMI>> ELSE <<>>)
              ELSE t0
        t2 == IF b.some
              THEN (t1 \o b.val) \o (IF s.some THEN <<SEMI>> ELSE <<>>)
              ELSE t1
    IN  t2 \o unwrap_or(s, <<>>)

\* Formatting::translate, statement by statement
translate(self) ==
    LET f == translate_foreground(self)
        b == translate_background(self)
        s == translate_styles(self)
        t0 == <<>>
        t1 == IF f.some
              THEN (t0 \o f.val) \o (IF b.some \/ s.some THEN <<SEMI>> ELSE <<>>)
              ELSE t0
        t2 == IF b.some
              THEN (t1 \o b.val) \o (IF s.some THEN <<SEMI>> ELSE <<>>)
              ELSE t1
    IN  t2 \o unwrap_or(s, <<>>)

\* variant of apply_to: the closing sequence is "\x1B[m" instead of "\x1B[0m"
apply_to_ShortReset(self, txt) ==
    LET c0 == <<ESC, LBRACKET>>
        c1 == c0 \o translate(self)
        c2 == c1 \o <<LOWER_M>>
        c3 == c2 \o txt
        c4 == c3 \o <<ESC, LBRACKET, LOWER_M>>
    IN  c4

\* Formatting::apply_to, statement by statement
apply_to(self, txt) ==
    LET c0 == <<ESC, LBRACKET>>
        c1 == c0 \o translate(self)
        c2 == c1 \o <<LOWER_M>>
        c3 == c2 \o txt
        c4 == c3 \o <<ESC, LBRACKET, ZERO, LOWER_M>>
    IN  c4

\* ------------------------------------------------------------------------
\* State
\* ------------------------------------------------------------------------

VARIABLES
    formatting,   \* the Formatting value: [fg, bg, styles]
    op,           \* the method that ran last ("new" after construction)
    text,         \* the text argument of the call, when op is apply_to
    translation,  \* the String translate() returned inside that apply_to
    out,          \* the String that apply_to returned
    ret,          \* the Option<String> a translate_* call returned
    lastFg,       \* history: argument of the latest foreground call, if any
    lastBg,       \* history: argument of the latest background call, if any
    lastStyles,   \* history: argument of the latest styles call, if any
    repeated,     \* history: the setters that have been called more than once
    renders,      \* history: <<text, result>> of the apply_to calls since the last setter call
    again         \* history: the last apply_to repeated a text of an earlier one in renders

vars == <<formatting, op, text, translation, out, ret,
          lastFg, lastBg, lastStyles, repeated, renders, again>>

history == <<lastFg, lastBg, lastStyles, repeated, renders, again>>

\* the texts handed to apply_to: "", "t", "\x1B[;m"
Texts == {<<>>, <<LOWER_T>>, <<ESC, LBRACKET, SEMI, LOWER_M>>}

StyleLists == SeqsUpTo(StyleSample, MaxStyleLen)

\* no setter has been called on the value new() returned
Fresh == lastFg = None /\ lastBg = None /\ lastStyles = None

NoCall ==
    /\ op = "new"
    /\ text = <<>>
    /\ translation = <<>>
    /\ out = <<>>
    /\ ret = None
    /\ lastFg = None
    /\ lastBg = None
    /\ lastStyles = None
    /\ repeated = {}
    /\ renders = {}
    /\ again = FALSE

Init ==
    /\ formatting = new
    /\ NoCall

\* ------------------------------------------------------------------------
\* Operations of the state machine.  A setter returns &mut Formatting and no
\* String, so text, translation and out are empty after it.
\* ------------------------------------------------------------------------

ForegroundCall(c) ==
    /\ formatting' = foreground(formatting, c)
    /\ op' = "foreground"
    /\ text' = <<>> /\ translation' = <<>> /\ out' = <<>>
    /\ UNCHANGED ret

BackgroundCall(c) ==
    /\ formatting' = background(formatting, c)
    /\ op' = "background"
    /\ text' = <<>> /\ translation' = <<>> /\ out' = <<>>
    /\ UNCHANGED ret

StylesCall(list) ==
    /\ formatting' = styles(formatting, list)
    /\ op' = "styles"
    /\ text' = <<>> /\ translation' = <<>> /\ out' = <<>>
    /\ UNCHANGED ret

Foreground ==
    \E c \in ColorSample :
        /\ ForegroundCall(c)
        /\ lastFg' = Some(c)
        /\ repeated' = IF lastFg.some THEN repeated \cup {"foreground"} ELSE repeated
        /\ renders' = {}
        /\ again' = FALSE
        /\ UNCHANGED <<lastBg, lastStyles>>

Background ==
    \E c \in ColorSample :
        /\ BackgroundCall(c)
        /\ lastBg' = Some(c)
        /\ repeated' = IF lastBg.some THEN repeated \cup {"background"} ELSE repeated
        /\ renders' = {}
        /\ again' = FALSE
        /\ UNCHANGED <<lastFg, lastStyles>>

SetStyles ==
    \E list \in StyleLists :
        /\ StylesCall(list)
        /\ lastStyles' = Some(list)
        /\ repeated' = IF lastStyles.some THEN repeated \cup {"styles"} ELSE repeated
        /\ renders' = {}
        /\ again' = FALSE
        /\ UNCHANGED <<lastFg, lastBg>>

\* variant of ApplyTo: rendering consumes the style list (Option::take)
ApplyTo_TakesStyles ==
    \E txt \in Texts :
        /\ text' = txt
        /\ translation' = translate(formatting)
        /\ out' = apply_to(formatting, txt)
        /\ op' = "apply_to"
        /\ renders' = renders \cup {<<txt, out'>>}
        /\ again' = (\E p \in renders : p[1] = txt)
        /\ formatting' = [formatting EXCEPT !.styles = None]
        /\ UNCHANGED <<ret, lastFg, lastBg, lastStyles, repeated>>

\* apply_to takes &self: the Formatting is not written
ApplyTo ==
    \E txt \in Texts :
        /\ text' = txt
        /\ translation' = translate(formatting)
        /\ out' = apply_to(formatting, txt)
        /\ op' = "apply_to"
        /\ renders' = renders \cup {<<txt, out'>>}
        /\ again' = (\E p \in renders : p[1] = txt)
        /\ UNCHANGED <<formatting, ret, lastFg, lastBg, lastStyles, repeated>>

Next == Foreground \/ Background \/ SetStyles \/ ApplyTo

Spec == Init /\ [][Next]_vars

\* ------------------------------------------------------------------------
\* The setter calls alone, without the history variables
\* ------------------------------------------------------------------------

ChainForeground == \E c \in ColorSample : ForegroundCall(c) /\ UNCHANGED history

ChainBackground == \E c \in ColorSample : BackgroundCall(c) /\ UNCHANGED history

ChainStyles == \E list \in StyleLists : StylesCall(list) /\ UNCHANGED history

NextSetters == ChainForeground \/ ChainBackground \/ ChainStyles

SpecSetters == Init /\ [][NextSetters]_vars

\* ------------------------------------------------------------------------
\* translate_foreground and translate_background on every Color
\* ------------------------------------------------------------------------

InitColors ==
    /\ formatting \in {[fg |-> c, bg |-> d, styles |-> None] : c \in Color, d \in ColorSample}
                 \cup {[fg |-> d, bg |-> c, styles |-> None] : c \in Color, d \in ColorSample}
    /\ NoCall

TranslateForeground ==
    /\ ret' = translate_foreground(formatting)
    /\ op' = "translate_foreground"
    /\ UNCHANGED <<formatting, text, translation, out, history>>

TranslateBackground ==
    /\ ret' = translate_background(formatting)
    /\ op' = "translate_background"
    /\ UNCHANGED <<formatting, text, translation, out, history>>

NextColors == TranslateForeground \/ TranslateBackground

SpecColors == InitColors /\ [][NextColors]_vars

\* ------------------------------------------------------------------------
\* translate_styles on every style list of up to MaxListLen elements
\* ------------------------------------------------------------------------

InitStyles ==
    /\ formatting \in {new} \cup {styles(new, list) : list \in SeqsUpTo(Styles, MaxListLen)}
    /\ NoCall

TranslateStyles ==
    /\ ret' = translate_styles(formatting)
    /\ op' = "translate_styles"
    /\ UNCHANGED <<formatting, text, translation, out, history>>

NextStyles == TranslateStyles

SpecStyles == InitStyles /\ [][NextStyles]_vars

\* ------------------------------------------------------------------------
\* Reference definitions used by the properties
\* ------------------------------------------------------------------------

\* the decimal numeral of n in 0..999, digit by digit
Numeral(n) ==
    IF n < 10 THEN <<48 + n>>
    ELSE IF n < 100 THEN <<48 + (n \div 10), 48 + (n % 10)>>
    ELSE <<48 + (n \div 100), 48 + ((n \div 10) % 10), 48 + (n % 10)>>

\* the colour order of the reference table
TableOrder == <<"Black", "Red", "Green", "Yellow", "Blue", "Magenta", "Cyan", "White">>

\* the bright variants, in the same colour order
BrightTableOrder == <<"BrightBlack", "BrightRed", "BrightGreen", "BrightYellow",
                      "BrightBlue", "BrightMagenta", "BrightCyan", "BrightWhite">>

\* the colour segment the reference table gives for a position with base 30 or 40
TableSegment(color, base) ==
    IF color = <<"Default">> THEN [some |-> FALSE, val |-> <<>>]
    ELSE IF color[1] = "Colors256"
    THEN [some |-> TRUE, val |-> Numeral(base + 8) \o <<59, 53, 59>> \o Numeral(color[2])]
    ELSE IF color[1] = "RGB"
    THEN [some |-> TRUE,
          val |-> Numeral(base + 8) \o <<59, 50, 59>> \o Numeral(color[2])
                    \o <<59>> \o Numeral(color[3]) \o <<59>> \o Numeral(color[4])]
    ELSE IF \E i \in 1..8 : TableOrder[i] = color[1]
    THEN [some |-> TRUE,
          val |-> Numeral(base + (CHOOSE i \in 1..8 : TableOrder[i] = color[1]) - 1)]
    ELSE [some |-> TRUE,
          val |-> Numeral(base + 60 + (CHOOSE i \in 1..8 : BrightTableOrder[i] = color[1]) - 1)]

\* the style code table
StyleTable == [Reset |-> 0, Bold |-> 1, Faint |-> 2, Italic |-> 3, Underline |-> 4,
               Blink |-> 5, Invert |-> 7, Invisible |-> 8, Strikethrough |-> 9]

\* the codes of a style list with a ';' before every code but the first
RECURSIVE CodesJoined(_)
CodesJoined(list) ==
    IF list = <<>> THEN <<>>
    ELSE IF Len(list) = 1 THEN <<48 + StyleTable[list[1]]>>
    ELSE CodesJoined(SubSeq(list, 1, Len(list) - 1)) \o <<59, 48 + StyleTable[list[Len(list)]]>>

\* up to three strings with one ';' between neighbours
Separated(strs) ==
    CASE Len(strs) = 0 -> <<>>
      [] Len(strs) = 1 -> strs[1]
      [] Len(strs) = 2 -> strs[1] \o <<59>> \o strs[2]
      [] Len(strs) = 3 -> strs[1] \o <<59>> \o strs[2] \o <<59>> \o strs[3]

IsPresent(o) == o.some

\* the values of the present ones among the given optional segments, in order
PresentSegments(segs) ==
    LET present == SelectSeq(segs, IsPresent)
    IN  [i \in 1..Len(present) |-> present[i].val]

\* the foreground and background segments of the current Formatting
ColorSegments ==
    PresentSegments(<<TableSegment(formatting.fg, 30), TableSegment(formatting.bg, 40)>>)

\* two Formatting values render every text alike
SameOutput(a, b) == \A txt \in Texts : apply_to(a, txt) = apply_to(b, txt)

\* the value of a string of decimal digits
RECURSIVE DigitsValue(_)
DigitsValue(d) ==
    IF d = <<>> THEN 0 ELSE 10 * DigitsValue(SubSeq(d, 1, Len(d) - 1)) + (d[Len(d)] - 48)

\* p is empty, or non-empty decimal numbers in 0..255 separated by single ';':
\* only digits and ';', no ';' first or last, no two ';' in a row
WellFormed(p) ==
    \/ p = <<>>
    \/ /\ \A i \in 1..Len(p) : p[i] = 59 \/ p[i] \in 48..57
       /\ p[1] # 59
       /\ p[Len(p)] # 59
       /\ \A i \in 1..(Len(p) - 1) : ~(p[i] = 59 /\ p[i + 1] = 59)
       /\ \A i \in 1..Len(p) : \A j \in i..Len(p) :
            ( /\ \A k \in i..j : p[k] # 59
              /\ (i = 1 \/ p[i - 1] = 59)
              /\ (j = Len(p) \/ p[j + 1] = 59) )
            => DigitsValue(SubSeq(p, i, j)) \in 0..255

\* ------------------------------------------------------------------------
\* Properties
\* ------------------------------------------------------------------------

\* C1: apply_to(text) returns ESC '[' + encoded parameters + 'm' + text +
\* ESC '[' '0' 'm', with the text verbatim and nothing between the parts.
C1_ApplyToWraps ==
    op = "apply_to" =>
        out = <<27, 91>> \o translation \o <<109>> \o text \o <<27, 91, 48, 109>>

\* a configured Formatting rendered a text that itself holds ESC, ';' and 'm'
C1_Witness ==
    /\ op = "apply_to"
    /\ translation # <<>>
    /\ text = <<27, 91, 59, 109>>

\* C2: for every Color and both positions the colour segment is the one of
\* the reference table: none for Default, base+0..7 for the base colours,
\* base+60..67 for the bright ones, "<base+8>;5;v" for Colors256(v) and
\* "<base+8>;2;r;g;b" for RGB, with base 30 (foreground) or 40 (background).
C2_ColorTable ==
    /\ op = "translate_foreground" => ret = TableSegment(formatting.fg, 30)
    /\ op = "translate_background" => ret = TableSegment(formatting.bg, 40)

\* the background segment of BrightWhite is "107"
C2_Witness ==
    /\ op = "translate_background"
    /\ formatting.bg = <<"BrightWhite">>
    /\ ret = [some |-> TRUE, val |-> <<49, 48, 55>>]

\* C3: a style list that has been set gives the codes of its elements in the
\* order given, duplicates kept, joined by single ';': n codes and n-1
\* separators for a list of n >= 1 elements.
C3_StylesSegment ==
    (op = "translate_styles" /\ formatting.styles.some) =>
        LET list == formatting.styles.val
            n == Len(list)
        IN  /\ ret.some
            /\ Len(ret.val) = (IF n = 0 THEN 0 ELSE 2 * n - 1)
            /\ \A i \in 1..n : ret.val[2 * i - 1] = 48 + StyleTable[list[i]]
            /\ \A i \in 1..(n - 1) : ret.val[2 * i] = 59

\* an unsorted list with a duplicate has been translated
C3_Witness ==
    /\ op = "translate_styles"
    /\ formatting.styles = [some |-> TRUE, val |-> <<"Strikethrough", "Bold", "Strikethrough">>]
    /\ ret.val = <<57, 59, 49, 59, 57>>

\* C4: the encoded parameters are the present segments in the order
\* foreground, background, styles, whatever the order of the setter calls,
\* with exactly one ';' between neighbours and none for an absent segment.
C4_SegmentOrder ==
    op = "apply_to" =>
        translation = Separated(PresentSegments(
            <<translate_foreground(formatting), translate_background(formatting),
              translate_styles(formatting)>>))

\* all three segments are present, and foreground was set after the styles
C4_Witness ==
    /\ op = "apply_to"
    /\ formatting.fg # <<"Default">>
    /\ formatting.bg # <<"Default">>
    /\ formatting.styles.some /\ formatting.styles.val # <<>>
    /\ "foreground" \in repeated
    /\ "styles" \notin repeated

\* C5: after any sequence of setter calls each field holds the argument of
\* the latest call of its kind, or its default if there was none, and
\* apply_to renders exactly those three values.
C5_LastCallWins ==
    /\ formatting.fg = (IF lastFg.some THEN lastFg.val ELSE <<"Default">>)
    /\ formatting.bg = (IF lastBg.some THEN lastBg.val ELSE <<"Default">>)
    /\ formatting.styles = (IF lastStyles.some THEN [some |-> TRUE, val |-> lastStyles.val]
                            ELSE [some |-> FALSE, val |-> <<>>])
    /\ op = "apply_to" =>
          translation = Separated(PresentSegments(
              << TableSegment(IF lastFg.some THEN lastFg.val ELSE <<"Default">>, 30),
                 TableSegment(IF lastBg.some THEN lastBg.val ELSE <<"Default">>, 40),
                 IF lastStyles.some
                 THEN [some |-> TRUE, val |-> CodesJoined(lastStyles.val)]
                 ELSE [some |-> FALSE, val |-> <<>>] >>))

\* styles was called again and foreground was called again with Default:
\* only the later list is rendered and there is no foreground segment
C5_Witness ==
    /\ op = "apply_to"
    /\ {"styles", "foreground"} \subseteq repeated
    /\ lastFg = [some |-> TRUE, val |-> <<"Default">>]
    /\ lastStyles = [some |-> TRUE, val |-> <<"Invert">>]
    /\ translation = <<55>>

\* C6: the Formatting new() returns has fg = Default, bg = Default and
\* styles = None, and apply_to(text) on it is ESC '[' 'm' text ESC '[0m'.
C6_NewIsEmpty ==
    Fresh =>
        /\ formatting.fg = <<"Default">>
        /\ formatting.bg = <<"Default">>
        /\ formatting.styles = [some |-> FALSE, val |-> <<>>]
        /\ op = "apply_to" => out = <<27, 91, 109>> \o text \o <<27, 91, 48, 109>>

\* a text has been rendered by the Formatting new() returned
C6_Witness ==
    /\ Fresh
    /\ op = "apply_to"
    /\ text = <<116>>

\* C7: with styles = Some([]) the styles segment is present and empty, so a
\* ';' follows the colour segments when there are any; with styles never
\* set, neither the segment nor its separator is emitted.
C7_EmptyListIsPresent ==
    op = "apply_to" =>
        /\ formatting.styles = [some |-> TRUE, val |-> <<>>] =>
              translation = Separated(ColorSegments)
                                \o (IF ColorSegments # <<>> THEN <<59>> ELSE <<>>)
        /\ formatting.styles = [some |-> FALSE, val |-> <<>>] =>
              translation = Separated(ColorSegments)

\* a foreground and the empty style list are set: the parameters are "34;"
C7_Witness ==
    /\ op = "apply_to"
    /\ formatting.fg = <<"Blue">>
    /\ formatting.bg = <<"Default">>
    /\ formatting.styles = [some |-> TRUE, val |-> <<>>]
    /\ translation = <<51, 52, 59>>

\* C8: the encoded parameters are well-formed for every configuration:
\* empty, or non-empty decimal numbers in 0..255 separated by single ';',
\* with no leading ';', no trailing ';' and no two consecutive ';'.
C8_WellFormed ==
    op = "apply_to" => WellFormed(translation)

\* C9: apply_to leaves fg, bg and styles unchanged, and two apply_to calls
\* with the same text and no setter call between them return the same string.
C9_ApplyToPure ==
    /\ [][op' = "apply_to" => formatting' = formatting]_vars
    /\ [](\A p \in renders : \A q \in renders : p[1] = q[1] => p[2] = q[2])

\* a text has been rendered a second time with no setter call in between
C9_Witness ==
    /\ op = "apply_to"
    /\ again
    /\ translation # <<>>

\* C10: each setter changes only its own field, and two setter calls of
\* different kinds commute, in the resulting Formatting and in what
\* apply_to then returns: a setter call followed by any call of another
\* kind gives the Formatting the two calls give in the opposite order, and
\* from every state the two orders of two such calls render alike.
C10_SettersIndependent ==
    /\ [][ /\ op' = "foreground" =>
                /\ formatting'.bg = formatting.bg /\ formatting'.styles = formatting.styles
                /\ \A d \in ColorSample :
                     background(formatting', d)
                        = foreground(background(formatting, d), formatting'.fg)
                /\ \A list \in StyleLists :
                     styles(formatting', list)
                        = foreground(styles(formatting, list), formatting'.fg)
           /\ op' = "background" =>
                /\ formatting'.fg = formatting.fg /\ formatting'.styles = formatting.styles
                /\ \A c \in ColorSample :
                     foreground(formatting', c)
                        = background(foreground(formatting, c), formatting'.bg)
                /\ \A list \in StyleLists :
                     styles(formatting', list)
                        = background(styles(formatting, list), formatting'.bg)
           /\ op' = "styles" =>
                /\ formatting'.fg = formatting.fg /\ formatting'.bg = formatting.bg
                /\ \A c \in ColorSample :
                     /\ foreground(formatting', c)
                          = styles(foreground(formatting, c), formatting'.styles.val)
                     /\ background(formatting', c)
                          = styles(background(formatting, c), formatting'.styles.val)
         ]_vars
    /\ [](/\ \A c \in ColorSample : \A d \in ColorSample :
               SameOutput(background(foreground(formatting, c), d),
                          foreground(background(formatting, d), c))
          /\ \A c \in ColorSample : \A list \in StyleLists :
               /\ SameOutput(styles(foreground(formatting, c), list),
                             foreground(styles(formatting, list), c))
               /\ SameOutput(styles(background(formatting, c), list),
                             background(styles(formatting, list), c)))

\* foreground was called on a Formatting whose background and styles were set
C10_Witness ==
    /\ op = "foreground"
    /\ formatting.fg = <<"Blue">>
    /\ formatting.bg = <<"Colors256", 208>>
    /\ formatting.styles = [some |-> TRUE, val |-> <<"Bold", "Invert">>]

====
